---- MODULE Spec2Model ----
(***************************************************************************)
(* countish: approximate frequency counting (src/src/lib.rs) and the       *)
(* driver that selects one of the three counters (src/src/main.rs).        *)
(*                                                                         *)
(* f64 values are modelled as exact rationals <<num, den>> with den >= 0;  *)
(* den = 0 stands for an infinity of the sign of num.  Counts that the     *)
(* code keeps in f64 (f, delta, the sticky counts, n, r) only ever hold    *)
(* small integers, which f64 represents exactly, and are modelled as       *)
(* integers.  The thresholds used are dyadic, so n * threshold is exact.   *)
(***************************************************************************)
EXTENDS Integers, Sequences, FiniteSets, TLC

\* ------------------------------------------------------------------ bounds
\* number of observe calls explored
MaxObs == 6
\* number of "continue" coin draws explored per key in StickySampler::prune
MaxDraws == 2

\* stand-in for u64::MAX (the result of `f64::INFINITY as u64`); only n / w
\* and n % w are computed from it, and n <= MaxObs is far below either value
U64_MAX == 2147483647

\* ------------------------------------------------------------------ inputs
Keys == {"shane", "hansen"}
Impls == {"naive", "lossy", "sticky"}
SupportSet == {<<9, 10>>}
ErrorToleranceSet == {<<-1, 2>>, <<0, 1>>, <<2, 5>>, <<1, 2>>}
\* the sampler is explored for error tolerances >= 0 only: a negative one
\* makes t negative, so that every observe doubles and prunes
StickyErrorToleranceSet == {e \in ErrorToleranceSet : e[1] >= 0}
FailureProbSet == {<<1, 2>>, <<9, 10>>}
ThresholdSet == {<<-1, 2>>, <<1, 4>>, <<1, 2>>, <<1, 1>>, <<3, 2>>}
\* values of rng.next_f64(), a sample of [0, 1)
UniformSet == {<<0, 1>>, <<1, 2>>, <<7, 8>>}

\* ------------------------------------------------------- rational numbers
Sign(i) == IF i > 0 THEN 1 ELSE IF i < 0 THEN -1 ELSE 0
Abs(i) == IF i < 0 THEN -i ELSE i
RECURSIVE Gcd(_, _)
Gcd(a, b) == IF b = 0 THEN a ELSE Gcd(b, a % b)
\* lowest terms, den >= 0; <<1,0>> is +inf, <<-1,0>> is -inf
RNorm(q) ==
    IF q[2] = 0 THEN <<Sign(q[1]), 0>>
    ELSE LET s == Sign(q[2])
             g == Gcd(Abs(q[1]), Abs(q[2]))
         IN  <<(s * q[1]) \div g, (s * q[2]) \div g>>
RMul(a, b) == RNorm(<<a[1] * b[1], a[2] * b[2]>>)
RDiv(a, b) == RNorm(<<a[1] * b[2], a[2] * b[1]>>)
RAdd(a, b) == RNorm(<<a[1] * b[2] + b[1] * a[2], a[2] * b[2]>>)
RSub(a, b) == RNorm(<<a[1] * b[2] - b[1] * a[2], a[2] * b[2]>>)
RLe(a, b) == a[1] * b[2] <= b[1] * a[2]
RLt(a, b) == a[1] * b[2] < b[1] * a[2]
RInt(i) == <<i, 1>>
\* floor and ceiling of a finite rational in normal form
Floor(q) == q[1] \div q[2]
Ceil(q) == -((-q[1]) \div q[2])
\* `x as u64` for an f64 x: truncation toward zero, saturating at the ends
CastU64(q) ==
    IF q[2] = 0 THEN (IF q[1] > 0 THEN U64_MAX ELSE 0)
    ELSE IF q[1] <= 0 THEN 0
    ELSE Floor(q)
\* f64::ceil
FCeil(q) == IF q[2] = 0 THEN q ELSE RInt(Ceil(q))

\* (1.0 / x).ln() for the products support * failure_prob of the inputs above,
\* rounded to two digits: ln(20/9), ln(100/81)
LnRecip(x) ==
    CASE x = <<9, 20>> -> <<4, 5>>
      [] x = <<81, 100>> -> <<21, 100>>

\* ------------------------------------------------------------------- maps
Remove(m, ks) == [k \in DOMAIN m \ ks |-> m[k]]
Insert(m, k, v) == [x \in DOMAIN m \cup {k} |-> IF x = k THEN v ELSE m[x]]
EmptyMap == [k \in {} |-> 0]

Entry(key, frequency) == [key |-> key, frequency |-> frequency]

\* ----------------------------------------------------------- NaiveSampler
new_naive_sampler == [n |-> 0, vals |-> EmptyMap]

\* variant: the entry is overwritten instead of incremented
NaiveSampler_observe_overwrite(self, key) ==
    [n |-> self.n + 1, vals |-> Insert(self.vals, key, 1)]

NaiveSampler_observe(self, key) ==
    [n |-> self.n + 1,
     vals |-> Insert(self.vals, key,
                     (IF key \in DOMAIN self.vals THEN self.vals[key] ELSE 0) + 1)]

\* variant: the filter is strict
NaiveSampler_items_above_threshold_strict(self, threshold) ==
    LET count == CastU64(RMul(RInt(self.n), threshold))
    IN  {Entry(key, RDiv(RInt(self.vals[key]), RInt(self.n))) :
            key \in {k \in DOMAIN self.vals : self.vals[k] > count}}

\* variant: every key is looked up, an absent one counting as 0
NaiveSampler_items_above_threshold_allkeys(self, threshold) ==
    LET count == CastU64(RMul(RInt(self.n), threshold))
        val(k) == IF k \in DOMAIN self.vals THEN self.vals[k] ELSE 0
    IN  {Entry(key, RDiv(RInt(val(key)), RInt(self.n))) :
            key \in {k \in Keys : val(k) >= count}}

NaiveSampler_items_above_threshold(self, threshold) ==
    LET count == CastU64(RMul(RInt(self.n), threshold))
    IN  {Entry(key, RDiv(RInt(self.vals[key]), RInt(self.n))) :
            key \in {k \in DOMAIN self.vals : self.vals[k] >= count}}

\* ----------------------------------------------------------- LossyCounter
FDeltaPair(f, delta) == [f |-> f, delta |-> delta]

new_lossy_counter(support, error_tolerance) ==
    [support |-> support,
     d |-> EmptyMap,
     bucket_width |-> CastU64(FCeil(RDiv(RInt(1), error_tolerance))),
     n |-> 0]

\* variant: an entry with f + delta equal to the bucket is kept
LossyCounter_prune_strict(self, bucket) ==
    LET to_remove == {key \in DOMAIN self.d :
                        self.d[key].f + self.d[key].delta < bucket}
    IN  [self EXCEPT !.d = Remove(self.d, to_remove)]

LossyCounter_prune(self, bucket) ==
    LET to_remove == {key \in DOMAIN self.d :
                        self.d[key].f + self.d[key].delta <= bucket}
    IN  [self EXCEPT !.d = Remove(self.d, to_remove)]

\* variant: a new key gets the current bucket as its delta
LossyCounter_observe_delta_bucket(self, key) ==
    LET n == self.n + 1
        bucket == (n \div self.bucket_width) + 1
        newval == IF key \in DOMAIN self.d
                  THEN FDeltaPair(self.d[key].f + 1, self.d[key].delta)
                  ELSE FDeltaPair(1, bucket)
        inserted == [self EXCEPT !.n = n, !.d = Insert(self.d, key, newval)]
    IN  IF n % self.bucket_width = 0
        THEN LossyCounter_prune(inserted, bucket)
        ELSE inserted

\* variant: a tracked key gets the delta of the current bucket again
LossyCounter_observe_redelta(self, key) ==
    LET n == self.n + 1
        bucket == (n \div self.bucket_width) + 1
        newval == IF key \in DOMAIN self.d
                  THEN FDeltaPair(self.d[key].f + 1, bucket - 1)
                  ELSE FDeltaPair(1, bucket - 1)
        inserted == [self EXCEPT !.n = n, !.d = Insert(self.d, key, newval)]
    IN  IF n % self.bucket_width = 0
        THEN LossyCounter_prune(inserted, bucket)
        ELSE inserted

\* bucket_width > 0; the division by a zero bucket_width is in LossyObserve
LossyCounter_observe(self, key) ==
    LET n == self.n + 1
        bucket == (n \div self.bucket_width) + 1
        newval == IF key \in DOMAIN self.d
                  THEN FDeltaPair(self.d[key].f + 1, self.d[key].delta)
                  ELSE FDeltaPair(1, bucket - 1)
        inserted == [self EXCEPT !.n = n, !.d = Insert(self.d, key, newval)]
    IN  IF n % self.bucket_width = 0
        THEN LossyCounter_prune(inserted, bucket)
        ELSE inserted

LossyCounter_items_above_threshold(self, threshold) ==
    LET f_n == self.n
        keep(val) == RLe(RMul(RSub(threshold, RInt(val.delta)), RInt(f_n)),
                         RInt(val.f))
    IN  {Entry(key, RAdd(RDiv(RInt(self.d[key].f), RInt(f_n)), self.support)) :
            key \in {k \in DOMAIN self.d : keep(self.d[k])}}

\* ---------------------------------------------------------- StickySampler
new_sampler(support, error_tolerance, failure_prob) ==
    LET two_t == RMul(RDiv(RInt(2), error_tolerance),
                      LnRecip(RMul(support, failure_prob)))
    IN  [error_tolerance |-> error_tolerance,
         support |-> support,
         r |-> 1,
         t |-> two_t,
         s |-> EmptyMap,
         n |-> 0]

\* draws[key] is the number of times the coin said "continue" for key before
\* it said "break"; each of them pushes key once, on the list its unchanged
\* value selects
\* variant: a key is decremented once however often it was pushed
StickySampler_prune_single(self, draws) ==
    LET to_remove == {key \in DOMAIN self.s :
                        draws[key] > 0 /\ self.s[key] - 1 <= 0}
        to_decr(key) == IF self.s[key] - 1 <= 0 \/ draws[key] = 0 THEN 0 ELSE 1
    IN  [self EXCEPT !.s = [key \in DOMAIN self.s \ to_remove |->
                                self.s[key] - to_decr(key)]]

StickySampler_prune(self, draws) ==
    LET to_remove == {key \in DOMAIN self.s :
                        draws[key] > 0 /\ self.s[key] - 1 <= 0}
        to_decr(key) == IF self.s[key] - 1 <= 0 THEN 0 ELSE draws[key]
    IN  [self EXCEPT !.s = [key \in DOMAIN self.s \ to_remove |->
                                self.s[key] - to_decr(key)]]

\* variant: the rate doubles as soon as n reaches t
StickySampler_observe_ge(self, key, draws, u) ==
    LET n == self.n + 1
        doubled == IF RLe(self.t, RInt(n))
                   THEN StickySampler_prune(
                            [self EXCEPT !.n = n,
                                         !.t = RMul(self.t, RInt(2)),
                                         !.r = self.r * 2], draws)
                   ELSE [self EXCEPT !.n = n]
        should_sample == RLe(u, <<1, doubled.r>>)
    IN  IF key \in DOMAIN doubled.s
        THEN [doubled EXCEPT !.s[key] = @ + 1]
        ELSE IF ~should_sample
        THEN doubled
        ELSE [doubled EXCEPT !.s = Insert(doubled.s, key, 1)]

\* variant: the rate doubles but the threshold stays
StickySampler_observe_keep_t(self, key, draws, u) ==
    LET n == self.n + 1
        doubled == IF RLt(self.t, RInt(n))
                   THEN StickySampler_prune(
                            [self EXCEPT !.n = n, !.r = self.r * 2], draws)
                   ELSE [self EXCEPT !.n = n]
        should_sample == RLe(u, <<1, doubled.r>>)
    IN  IF key \in DOMAIN doubled.s
        THEN [doubled EXCEPT !.s[key] = @ + 1]
        ELSE IF ~should_sample
        THEN doubled
        ELSE [doubled EXCEPT !.s = Insert(doubled.s, key, 1)]

\* variant: a sampled new key is inserted with the default 0.0 and not counted
StickySampler_observe_insert_zero(self, key, draws, u) ==
    LET n == self.n + 1
        doubled == IF RLt(self.t, RInt(n))
                   THEN StickySampler_prune(
                            [self EXCEPT !.n = n,
                                         !.t = RMul(self.t, RInt(2)),
                                         !.r = self.r * 2], draws)
                   ELSE [self EXCEPT !.n = n]
        should_sample == RLe(u, <<1, doubled.r>>)
    IN  IF key \in DOMAIN doubled.s
        THEN [doubled EXCEPT !.s[key] = @ + 1]
        ELSE IF ~should_sample
        THEN doubled
        ELSE [doubled EXCEPT !.s = Insert(doubled.s, key, 0)]

\* variant: a sampled new key is inserted with the default 1.0 and counted
StickySampler_observe_insert_two(self, key, draws, u) ==
    LET n == self.n + 1
        doubled == IF RLt(self.t, RInt(n))
                   THEN StickySampler_prune(
                            [self EXCEPT !.n = n,
                                         !.t = RMul(self.t, RInt(2)),
                                         !.r = self.r * 2], draws)
                   ELSE [self EXCEPT !.n = n]
        should_sample == RLe(u, <<1, doubled.r>>)
    IN  IF key \in DOMAIN doubled.s
        THEN [doubled EXCEPT !.s[key] = @ + 1]
        ELSE IF ~should_sample
        THEN doubled
        ELSE [doubled EXCEPT !.s = Insert(doubled.s, key, 2)]

\* u is the value rng.next_f64() returns if it is called
StickySampler_observe(self, key, draws, u) ==
    LET n == self.n + 1
        doubled == IF RLt(self.t, RInt(n))
                   THEN StickySampler_prune(
                            [self EXCEPT !.n = n,
                                         !.t = RMul(self.t, RInt(2)),
                                         !.r = self.r * 2], draws)
                   ELSE [self EXCEPT !.n = n]
        should_sample == RLe(u, <<1, doubled.r>>)
    IN  IF key \in DOMAIN doubled.s
        THEN [doubled EXCEPT !.s[key] = @ + 1]
        ELSE IF ~should_sample
        THEN doubled
        ELSE [doubled EXCEPT !.s = Insert(doubled.s, key, 1)]

StickySampler_items_above_threshold(self, threshold) ==
    LET keep(f) == RLe(RMul(RSub(threshold, self.error_tolerance), RInt(self.n)),
                       RInt(f))
    IN  {Entry(key, RAdd(RDiv(RInt(self.s[key]), RInt(self.n)), self.support)) :
            key \in {k \in DOMAIN self.s : keep(self.s[k])}}

\* ------------------------------------------------------------------ state
VARIABLES
    impl,      \* the implementation main selected
    args,      \* the arguments its constructor was called with
    counter,   \* the counter object
    status,    \* "ready", or "panic" once a call has panicked
    stream,    \* the keys passed to observe so far, in order
    ret,       \* the most recent call and what it returned
    pruned     \* what StickySampler::prune did in the most recent call

vars == <<impl, args, counter, status, stream, ret, pruned>>

\* record of one run of StickySampler::prune: the tracked map it found, the
\* number of continue-draws per key and the tracked map it left
NoPrune == [ran |-> FALSE, before |-> EmptyMap, draws |-> EmptyMap,
            after |-> EmptyMap]
PruneRun(self, draws) ==
    [ran |-> TRUE, before |-> self.s, draws |-> draws,
     after |-> StickySampler_prune(self, draws).s]

NoEntries == {}
Returned(op, threshold, entries) ==
    [op |-> op, threshold |-> threshold, entries |-> entries]

Init ==
    /\ status = "ready"
    /\ pruned = NoPrune
    /\ stream = <<>>
    /\ ret = Returned("new", <<0, 1>>, NoEntries)
    /\ \/ /\ impl = "naive"
          /\ args = <<>>
          /\ counter = new_naive_sampler
       \/ \E support \in SupportSet, error_tolerance \in ErrorToleranceSet :
            /\ impl = "lossy"
            /\ args = [support |-> support, error_tolerance |-> error_tolerance]
            /\ counter = new_lossy_counter(support, error_tolerance)
       \/ \E support \in SupportSet, error_tolerance \in StickyErrorToleranceSet,
             failure_prob \in FailureProbSet :
            /\ impl = "sticky"
            /\ args = [support |-> support, error_tolerance |-> error_tolerance,
                       failure_prob |-> failure_prob]
            /\ counter = new_sampler(support, error_tolerance, failure_prob)

CanCall == status = "ready" /\ Len(stream) < MaxObs

NaiveObserve(key) ==
    /\ impl = "naive"
    /\ CanCall
    /\ counter' = NaiveSampler_observe(counter, key)
    /\ stream' = Append(stream, key)
    /\ ret' = Returned("observe", <<0, 1>>, NoEntries)
    /\ UNCHANGED <<impl, args, status, pruned>>

NaiveItemsAboveThreshold(threshold) ==
    /\ impl = "naive"
    /\ status = "ready"
    /\ ret' = Returned("items_above_threshold", threshold,
                       NaiveSampler_items_above_threshold(counter, threshold))
    /\ pruned' = NoPrune
    /\ UNCHANGED <<impl, args, counter, status, stream>>

LossyObserve(key) ==
    /\ impl = "lossy"
    /\ CanCall
    /\ IF counter.bucket_width = 0
       THEN /\ counter' = [counter EXCEPT !.n = @ + 1]
            /\ status' = "panic"
       ELSE /\ counter' = LossyCounter_observe(counter, key)
            /\ status' = status
    /\ stream' = Append(stream, key)
    /\ ret' = Returned("observe", <<0, 1>>, NoEntries)
    /\ UNCHANGED <<impl, args, pruned>>

\* variant: the query prunes as an observe at a bucket boundary does
LossyItemsAboveThreshold_pruning(threshold) ==
    /\ impl = "lossy"
    /\ status = "ready"
    /\ ret' = Returned("items_above_threshold", threshold,
                       LossyCounter_items_above_threshold(counter, threshold))
    /\ counter' = IF counter.bucket_width = 0 THEN counter
                  ELSE LossyCounter_prune(counter,
                           (counter.n \div counter.bucket_width) + 1)
    /\ pruned' = NoPrune
    /\ UNCHANGED <<impl, args, status, stream>>

LossyItemsAboveThreshold(threshold) ==
    /\ impl = "lossy"
    /\ status = "ready"
    /\ ret' = Returned("items_above_threshold", threshold,
                       LossyCounter_items_above_threshold(counter, threshold))
    /\ pruned' = NoPrune
    /\ UNCHANGED <<impl, args, counter, status, stream>>

\* the coin is tossed only in prune, which runs only when n exceeds t
CoinDraws(self) ==
    IF RLt(self.t, RInt(self.n + 1))
    THEN [DOMAIN self.s -> 0..MaxDraws]
    ELSE [DOMAIN self.s -> {0}]

StickyObserve(key) ==
    /\ impl = "sticky"
    /\ CanCall
    /\ \E draws \in CoinDraws(counter), u \in UniformSet :
          /\ counter' = StickySampler_observe(counter, key, draws, u)
          /\ pruned' = IF RLt(counter.t, RInt(counter.n + 1))
                       THEN PruneRun(counter, draws)
                       ELSE NoPrune
    /\ stream' = Append(stream, key)
    /\ ret' = Returned("observe", <<0, 1>>, NoEntries)
    /\ UNCHANGED <<impl, args, status>>

StickyItemsAboveThreshold(threshold) ==
    /\ impl = "sticky"
    /\ status = "ready"
    /\ ret' = Returned("items_above_threshold", threshold,
                       StickySampler_items_above_threshold(counter, threshold))
    /\ pruned' = NoPrune
    /\ UNCHANGED <<impl, args, counter, status, stream>>

Next ==
    \/ \E key \in Keys : NaiveObserve(key)
    \/ \E threshold \in ThresholdSet : NaiveItemsAboveThreshold(threshold)
    \/ \E key \in Keys : LossyObserve(key)
    \/ \E threshold \in ThresholdSet : LossyItemsAboveThreshold(threshold)
    \/ \E key \in Keys : StickyObserve(key)
    \/ \E threshold \in ThresholdSet : StickyItemsAboveThreshold(threshold)

Spec == Init /\ [][Next]_vars

\* ------------------------------------------------------- derived notions
\* number of occurrences of key in the observed stream
Occurrences(key) == Cardinality({i \in 1..Len(stream) : stream[i] = key})
Calls == Len(stream)
Queried == ret.op = "items_above_threshold"
ReturnedKeys == {e.key : e \in ret.entries}
InUnitOpen(q) == RLt(RInt(0), q) /\ RLt(q, RInt(1))
InUnitHalfOpen(q) == RLt(RInt(0), q) /\ RLe(q, RInt(1))

RECURSIVE SumVals(_)
SumVals(m) ==
    IF DOMAIN m = {} THEN 0
    ELSE LET k == CHOOSE x \in DOMAIN m : TRUE
         IN  m[k] + SumVals(Remove(m, {k}))
REq(a, b) == RNorm(a) = RNorm(b)
TrueFrequency(key) == <<Occurrences(key), Calls>>
\* the initial doubling threshold of the sticky sampler that was constructed
InitialT == new_sampler(args.support, args.error_tolerance, args.failure_prob).t

TypeOK ==
    /\ impl \in Impls
    /\ status \in {"ready", "panic"}
    /\ stream \in Seq(Keys)
    /\ Len(stream) <= MaxObs

\* ------------------------------------------------------------------ claims

\* C1: LossyCounter never misses a heavy hitter: with errorTolerance in (0,1),
\* threshold in (0,1] and n >= 1 observations, every key whose true frequency
\* is >= threshold is in the result of items_above_threshold(threshold).
C1_LossyNeverMissesHeavyHitter ==
    (/\ impl = "lossy"
     /\ InUnitOpen(args.error_tolerance)
     /\ Queried
     /\ InUnitHalfOpen(ret.threshold)
     /\ Calls >= 1)
    => \A key \in Keys :
          RLe(ret.threshold, TrueFrequency(key)) => key \in ReturnedKeys

\* C2: LossyCounter's result contains no key whose true frequency is below
\* threshold - errorTolerance (n >= 1, threshold in (0,1]).
C2_LossyExcludesLowFrequency ==
    (/\ impl = "lossy"
     /\ InUnitOpen(args.error_tolerance)
     /\ Queried
     /\ InUnitHalfOpen(ret.threshold)
     /\ Calls >= 1)
    => \A key \in Keys :
          RLt(TrueFrequency(key), RSub(ret.threshold, args.error_tolerance))
             => key \notin ReturnedKeys

\* C3: LossyCounter error-bound containment: for every tracked key, the true
\* number of occurrences minus the tracked f is at most the key's delta.
C3_LossyErrorBound ==
    impl = "lossy" =>
        \A key \in DOMAIN counter.d :
            Occurrences(key) - counter.d[key].f <= counter.d[key].delta

C5_NaiveOnlyAboveThreshold ==
    (/\ impl = "naive"
     /\ Queried
     /\ InUnitHalfOpen(ret.threshold)
     /\ Calls >= 1)
    => \A e \in ret.entries : RLe(ret.threshold, e.frequency)

\* C6: in the ExactCounter the per-key counts sum to n, and n is the number of
\* observe calls made.
C6_NaiveSumIsN ==
    impl = "naive" =>
        /\ SumVals(counter.vals) = counter.n
        /\ counter.n = Calls

C6_Witness ==
    /\ impl = "naive"
    /\ Calls >= 4
    /\ Cardinality(DOMAIN counter.vals) = 2
    /\ \E key \in DOMAIN counter.vals : counter.vals[key] >= 2

\* C7: a query changes no field of the counter of any of the three
\* implementations, and a query that follows a query with the same threshold
\* returns the same entries.
C7_QueriesArePure ==
    [][ret'.op = "items_above_threshold" =>
          /\ counter' = counter
          /\ status' = status
          /\ (Queried /\ ret.threshold = ret'.threshold
                => ret'.entries = ret.entries)]_vars

C7_Witness ==
    /\ impl = "lossy"
    /\ Queried
    /\ Calls >= 1
    /\ counter.d # EmptyMap
    /\ counter.bucket_width \in 1..MaxObs

\* C8: a query on a freshly constructed counter (no observe yet) returns no
\* entry and does not fail, for each implementation and any threshold.
C8_FreshQueryIsEmpty ==
    (Queried /\ Calls = 0) => (ret.entries = {} /\ status = "ready")

C8_Witness ==
    /\ Queried
    /\ Calls = 0
    /\ impl = "naive"
    /\ counter.n = 0

\* C9: constructing a LossyCounter or a StickySampler with errorTolerance <= 0
\* ends in a configuration error, and observe is never called on the result.
C9_ConstructionRejectsInvalid ==
    (impl \in {"lossy", "sticky"} /\ RLe(args.error_tolerance, RInt(0)))
    => (status = "config_error" /\ Calls = 0)

\* C10: from a fresh StickySampler with initial threshold t0 > 0, the first
\* floor(t0) observe calls cause no doubling (r = 1, t = t0), and after call
\* number floor(t0) + 1 there has been exactly one (r = 2, t = 2 * t0).
C10_StickyDoublingBoundary ==
    (impl = "sticky" /\ RLt(RInt(0), InitialT) /\ InitialT[2] # 0) =>
        /\ Calls <= Floor(InitialT)
              => (counter.r = 1 /\ REq(counter.t, InitialT))
        /\ Calls = Floor(InitialT) + 1
              => (counter.r = 2 /\ REq(counter.t, RMul(RInt(2), InitialT)))

C10_Witness ==
    /\ impl = "sticky"
    /\ RLt(RInt(0), InitialT) /\ InitialT[2] # 0
    /\ Floor(InitialT) >= 3
    /\ Calls = Floor(InitialT) + 1
    /\ counter.r = 2

\* C11: every Entry returned by any of the three counters after n >= 1
\* observations, for support in (0,1), has a frequency f with 0 < f <= 1.
C11_FrequencyInUnitInterval ==
    (/\ Queried
     /\ Calls >= 1
     /\ InUnitHalfOpen(ret.threshold)
     /\ impl # "naive" =>
           InUnitOpen(args.support) /\ InUnitOpen(args.error_tolerance))
    => \A e \in ret.entries : InUnitHalfOpen(e.frequency)

\* C13: the StickySampler never keeps a key with a non-positive count: every
\* tracked key has count >= 1, whatever the random draws.
C13_StickyCountsPositive ==
    (impl = "sticky" /\ InUnitOpen(args.error_tolerance)) =>
        \A key \in DOMAIN counter.s : counter.s[key] >= 1

LossyUpdated(key, k) ==
    IF k # key THEN counter.d[k]
    ELSE IF key \in DOMAIN counter.d
    THEN FDeltaPair(counter.d[key].f + 1, counter.d[key].delta)
    ELSE FDeltaPair(1, counter'.n \div counter.bucket_width)
ObservedKey == stream'[Len(stream')]
LossyObserveStep ==
    impl = "lossy" /\ stream' # stream /\ status' = "ready"

\* C15: an observe that brings n to a multiple of bucketWidth leaves no entry
\* with f + delta <= floor(n / bucketWidth) + 1 and removes only such entries;
\* an observe that brings n to a non-multiple removes no entry.
C15_LossyPrunesAtBoundaries ==
    [][LossyObserveStep =>
         LET n == counter'.n
             w == counter.bucket_width
             bucket == (n \div w) + 1
             present == DOMAIN counter.d \cup {ObservedKey}
         IN  /\ DOMAIN counter'.d \subseteq present
             /\ IF n % w = 0
                THEN /\ \A k \in DOMAIN counter'.d :
                           counter'.d[k].f + counter'.d[k].delta > bucket
                     /\ \A k \in present \ DOMAIN counter'.d :
                           LossyUpdated(ObservedKey, k).f
                             + LossyUpdated(ObservedKey, k).delta <= bucket
                ELSE DOMAIN counter'.d = present]_vars

C15_Witness ==
    /\ impl = "lossy"
    /\ counter.bucket_width \in 1..MaxObs
    /\ counter.n > 0
    /\ counter.n % counter.bucket_width = 0
    /\ Cardinality(DOMAIN counter.d) = 1
    /\ Cardinality({key \in Keys : Occurrences(key) > 0}) = 2

\* C16: while a key stays tracked its delta keeps the value floor(n /
\* bucketWidth) it got at insertion (n after that observe's increment), an
\* observe of the key adds exactly 1 to its f, and an observe of another key
\* leaves its f and delta unchanged.
C16_LossyBookkeeping ==
    [][LossyObserveStep =>
         \A k \in DOMAIN counter'.d :
            IF k \in DOMAIN counter.d
            THEN /\ counter'.d[k].delta = counter.d[k].delta
                 /\ counter'.d[k].f =
                       counter.d[k].f + (IF k = ObservedKey THEN 1 ELSE 0)
            ELSE /\ k = ObservedKey
                 /\ counter'.d[k].f = 1
                 /\ counter'.d[k].delta = counter'.n \div counter.bucket_width]_vars

C16_Witness ==
    /\ impl = "lossy"
    /\ Cardinality(DOMAIN counter.d) = 2
    /\ \E key \in DOMAIN counter.d :
          counter.d[key].f >= 2 /\ counter.d[key].delta >= 1

RECURSIVE IsPowerOfTwo(_)
IsPowerOfTwo(i) ==
    IF i = 1 THEN TRUE
    ELSE IF i < 1 \/ i % 2 # 0 THEN FALSE
    ELSE IsPowerOfTwo(i \div 2)
StickyObserveStep == impl = "sticky" /\ stream' # stream

\* C17: every observe of the StickySampler leaves r and t unchanged or
\* multiplies both by exactly 2, the latter exactly when the incremented n
\* exceeds t; so r is a power of two and t / r is the initial t.
C17_StickyRateOnlyDoubles ==
    /\ [](impl = "sticky" =>
            /\ IsPowerOfTwo(counter.r)
            /\ REq(RDiv(counter.t, RInt(counter.r)), InitialT))
    /\ [][StickyObserveStep =>
            /\ counter'.n = counter.n + 1
            /\ IF RLt(counter.t, RInt(counter'.n))
               THEN /\ counter'.r = 2 * counter.r
                    /\ REq(counter'.t, RMul(RInt(2), counter.t))
               ELSE /\ counter'.r = counter.r
                    /\ counter'.t = counter.t]_vars

C17_Witness ==
    /\ impl = "sticky"
    /\ InUnitOpen(args.error_tolerance)
    /\ counter.r >= 4
    /\ RLe(RInt(counter.n), counter.t)

\* the ExactCounter after it was fed the keys of seq in order
RECURSIVE NaiveAfter(_)
NaiveAfter(seq) ==
    IF seq = <<>> THEN new_naive_sampler
    ELSE NaiveSampler_observe(NaiveAfter(SubSeq(seq, 1, Len(seq) - 1)),
                              seq[Len(seq)])

\* C18: as long as the number of observe calls is at most the initial t, the
\* StickySampler's tracked map equals the per-key counts of an ExactCounter
\* fed the same sequence (r = 1, every admission draw succeeds).
C18_StickyExactBeforeDoubling ==
    (impl = "sticky" /\ RLe(RInt(Calls), InitialT)) =>
        /\ counter.r = 1
        /\ counter.s = NaiveAfter(stream).vals

C18_Witness ==
    /\ impl = "sticky"
    /\ InUnitOpen(args.error_tolerance)
    /\ Calls >= 3
    /\ RLe(RInt(Calls), InitialT)
    /\ Cardinality(DOMAIN counter.s) = 2

\* C19: while the number of observe calls is below bucketWidth, the
\* LossyCounter tracks exactly the observed keys, each with delta = 0 and f
\* equal to the ExactCounter's count, and a query returns exactly the keys
\* with count >= threshold * n.
C19_LossyExactBeforeBoundary ==
    (impl = "lossy" /\ Calls < counter.bucket_width) =>
        LET vals == NaiveAfter(stream).vals
        IN  /\ counter.d = [k \in DOMAIN vals |-> FDeltaPair(vals[k], 0)]
            /\ Queried =>
                  ReturnedKeys =
                     {k \in DOMAIN vals :
                         RLe(RMul(ret.threshold, RInt(Calls)), RInt(vals[k]))}

C19_Witness ==
    /\ impl = "lossy"
    /\ InUnitOpen(args.error_tolerance)
    /\ Calls >= 2
    /\ Calls < counter.bucket_width
    /\ Queried
    /\ InUnitHalfOpen(ret.threshold)
    /\ Cardinality(DOMAIN counter.d) = 2
    /\ Cardinality(ret.entries) < 2

\* C20: the approximate counters never overestimate: the tracked count of a
\* tracked key (f in the LossyCounter, the count in the StickySampler) is at
\* most the number of times the key was observed, and n is the number of
\* observe calls.
C20_NeverOverestimate ==
    /\ impl = "lossy" =>
          /\ counter.n = Calls
          /\ \A key \in DOMAIN counter.d : counter.d[key].f <= Occurrences(key)
    /\ impl = "sticky" =>
          /\ counter.n = Calls
          /\ \A key \in DOMAIN counter.s : counter.s[key] <= Occurrences(key)

C20_Witness ==
    /\ impl = "sticky"
    /\ InUnitOpen(args.error_tolerance)
    /\ counter.r >= 2
    /\ \E key \in DOMAIN counter.s :
          counter.s[key] >= 2 /\ counter.s[key] < Occurrences(key)
====
